---- MODULE Spec2Model ----
(***************************************************************************)
(* Model of libgit/autogit_manager.go (AutogitManager): the sync-request   *)
(* coalescer (queueReset), the reset worker pool (resetWorker, doReset),   *)
(* and the lease protocol on the shared file store (canWorkOnRepo,         *)
(* workDoneOnRepo, commonTime).                                            *)
(*                                                                         *)
(* Time is counted in units of half an hour, so workTimeLimit (1 hour) is  *)
(* 2 units.  A request is named by the caller that built it (Pull/Clone    *)
(* build one resetReq, with its own doneCh, per call).                     *)
(***************************************************************************)
EXTENDS Integers, Sequences, FiniteSets, TLC

\* ---- bounds of the model ----
MaxCallers == 3
NumIds == 1
NumWorkers == 2
NumProcs == 2
MaxTime == 3
MaxSkew == 1
MaxPulls == 2
MaxDeletes == 2
NumNodes == 3
MaxWatches == 3
MaxHooks == 2
MaxBatch == 2

\* ---- program constants ----
workTimeLimit == 2

Callers == 1..MaxCallers
Reqs == Callers
Pullers == 1..MaxPulls
DReqs == 1..MaxDeletes
Nodes == 1..NumNodes
Ids == 1..NumIds
Workers == 1..NumWorkers
Procs == 1..NumProcs
Skews == 0..MaxSkew

\* the manager is process 1; the repo name and destination the lease
\* processes contend for
Me == 1
LeaseId == 1

\* nodeToWatch.GetFolderBranch(): node ids 1 and 2 lie in one folder-branch,
\* 3 and 4 in the next, and so on
ScopeOf(n) == (n + 1) \div 2
Scopes == {ScopeOf(n) : n \in Nodes}

NoReq == 0
CtxErr == 0 - 1
CloneErr == 0 - 2
NoFile == 0 - 1000

VARIABLES
    resetQueue,        \* am.resetQueue: requests pushed and not yet dequeued
    resetsInQueue,     \* am.resetsInQueue: id -> request or NoReq
    resetsInProgress,  \* am.resetsInProgress: id -> request or NoReq
    resetsWG,          \* am.resetsWG counter
    doneCh,            \* per request: number of times close(req.doneCh) ran
    reqId,             \* per request: req.id(), 0 before the call
    cpc,               \* per caller: position in Pull/queueReset
    cret,              \* per caller: returned signal (request), CtxErr or NoReq
    asyncPush,         \* goroutines of line 450 that have not pushed yet
    wpc,               \* per worker: position in resetWorker
    wreq,              \* per worker: req of the current iteration
    wwait,             \* per worker: request whose doneCh it waits on
    werr,              \* per worker: err doReset returned (dropped at line 407)
    wjob,              \* per worker: err of Chroot/Reset, "none" before they ran
    wrel,              \* per worker: workDoneErr of the deferred release
    store,             \* per id: lock file, working marker, lasterr marker
    lockHolder,        \* per id: process inside the lock-file critical section
    now,               \* reference (server) time
    skew,              \* per process: local clock ahead of reference time by
    haveOffset,        \* per process: MDServer().OffsetFromServerTime() known
    lpc,               \* per lease process: position
    lres,              \* per lease process: result of the call it just made
    lheld,             \* per lease process: granted and not released
    lgrant,            \* per lease process: reference time of its last grant
    claims,            \* per request: times a worker claimed it
    retired,           \* per request: times resetsWG.Done ran for it
    tree,              \* per id: the destination subtree dstDir/repo
    cloneLocked,       \* callers inside Clone that hold the lock file
    deleteQueue,       \* am.deleteQueue: requests pushed and not yet dequeued
    dreqId,            \* per delete request: its destination and repo
    dcpc,              \* per Delete caller: position
    dcret,             \* per Delete caller: returned signal, CtxErr or NoReq
    dpc,               \* deleteLoop: position
    dreq,              \* deleteLoop: req of the current iteration
    derr,              \* deleteLoop: err doDelete returned (dropped, line 550)
    djob,              \* deleteLoop: err of Stat/recursiveDelete
    drel,              \* deleteLoop: workDoneErr and rmErr of the deferred release
    ddoneCh,           \* per delete request: times close(req.doneCh) ran
    resetClosed,       \* am.resetQueue.Close() was called
    deleteClosed,      \* am.deleteQueue.Close() was called
    queueDoneCh,       \* am.queueDoneCh is closed
    deleteDoneCh,      \* am.deleteDoneCh is closed
    spc,               \* the caller of Shutdown: position
    registeredFBs,     \* am.registeredFBs: scopes marked as subscribed
    repoNodes,         \* am.repoNodesForWatchedIDs: node ids with a repoNode
    watchedNodes,      \* am.watchedNodes
    subscribed,        \* per scope: RegisterForChanges calls that succeeded
    updatingWG,        \* am.updatingWG counter
    hooks,             \* per node id: update hooks started and not finished
    rres               \* what the last registry call did

mgrVars == <<resetQueue, resetsInQueue, resetsInProgress, resetsWG, doneCh,
             reqId, cpc, cret, asyncPush, wpc, wreq, wwait, werr, wjob,
             wrel>>
storeVars == <<store, lockHolder>>
clockVars == <<skew, haveOffset>>
leaseVars == <<lpc, lres, lheld, lgrant>>
ghostVars == <<claims, retired>>
delVars == <<deleteQueue, dreqId, dcpc, dcret, dpc, dreq, derr, djob, drel,
             ddoneCh>>
shutVars == <<resetClosed, deleteClosed, queueDoneCh, deleteDoneCh, spc>>
regVars == <<registeredFBs, repoNodes, watchedNodes, subscribed, updatingWG,
             hooks, rres>>
vars == <<mgrVars, storeVars, now, clockVars, leaseVars, ghostVars, tree,
          cloneLocked, delVars, shutVars, regVars>>

\* ---------------------------------------------------------------------
\* Clock
\* ---------------------------------------------------------------------

\* am.config.Clock().Now() of process p
LocalNow(p) == now + skew[p]

\* MDServer().OffsetFromServerTime(): the offset of the local clock from
\* the server's, when known
OffsetFromServerTime(p) == skew[p]

\* commonTime that adds the offset instead of taking it off
CommonTime_AddOffset(p) ==
    IF ~haveOffset[p] THEN LocalNow(p)
    ELSE LocalNow(p) + OffsetFromServerTime(p)

\* commonTime lines 151-159
CommonTime(p) ==
    IF ~haveOffset[p] THEN LocalNow(p)
    ELSE LocalNow(p) - OffsetFromServerTime(p)

\* ---------------------------------------------------------------------
\* The lease files of one repo name at one destination
\* ---------------------------------------------------------------------

NoErrFile == "<absent>"
ErrTexts == {"ResetErr"}
JobErrs == {"nil"} \cup ErrTexts

FreshStore == [lock |-> FALSE, working |-> NoFile, lasterr |-> NoErrFile]

\* dstFS.Create(autogitLockName(repo)) and lockFile.Lock(); when Lock fails
\* the deferred Close only logs
LockFile(st, fault) ==
    IF fault = "create_lock"
    THEN [st |-> st, locked |-> FALSE, err |-> "EIO"]
    ELSE IF fault = "lock"
    THEN [st |-> [st EXCEPT !.lock = TRUE], locked |-> FALSE, err |-> "EIO"]
    ELSE [st |-> [st EXCEPT !.lock = TRUE], locked |-> TRUE, err |-> "nil"]

\* lockFile.Close() in the deferred function: its error is returned only
\* when the function had none
CloseErr(fault) == IF fault = "close_lock" THEN "EIO" ELSE "nil"

\* the liveness test with the boundary on the wrong side
StillWorking_Inclusive(modCommonTime, currCommonTime) ==
    modCommonTime + workTimeLimit >= currCommonTime

\* the liveness test that takes every marker for expired
StillWorking_Never(modCommonTime, currCommonTime) == FALSE

\* modCommonTime.Add(workTimeLimit).After(currCommonTime)
StillWorking(modCommonTime, currCommonTime) ==
    modCommonTime + workTimeLimit > currCommonTime

\* the grant that leaves the marker's time as it found it
SetWorkTime_NoStamp(st, currCommonTime, fault) ==
    [st |-> st, canWork |-> TRUE, err |-> CloseErr(fault)]

\* dstFS.Chtimes(workingFileName, time.Time{}, currCommonTime); return true
SetWorkTime(st, currCommonTime, fault) ==
    IF fault = "chtimes"
    THEN [st |-> st, canWork |-> FALSE, err |-> "EIO"]
    ELSE [st |-> [st EXCEPT !.working = currCommonTime],
          canWork |-> TRUE, err |-> CloseErr(fault)]

\* canWorkOnRepo after the lock is taken: Stat of the working marker, the
\* three cases, Chtimes, and the deferred Close.  A marker just created
\* carries the creator's local time until Chtimes sets it.
CanWorkBody(st, localNow, currCommonTime, fault) ==
    IF fault = "stat"
    THEN [st |-> st, canWork |-> FALSE, err |-> "EIO"]
    ELSE IF st.working = NoFile
    THEN IF fault = "create_working"
         THEN [st |-> st, canWork |-> FALSE, err |-> "EIO"]
         ELSE IF fault = "close_working"
         THEN [st |-> [st EXCEPT !.working = localNow],
               canWork |-> FALSE, err |-> "EIO"]
         ELSE SetWorkTime([st EXCEPT !.working = localNow],
                          currCommonTime, fault)
    ELSE IF StillWorking(st.working, currCommonTime)
    THEN [st |-> st, canWork |-> FALSE, err |-> CloseErr(fault)]
    ELSE SetWorkTime(st, currCommonTime, fault)

\* the lasterr part that leaves an old marker in place after a success
WriteLastErr_KeepOld(st, workErr, fault) ==
    IF fault = "remove_lasterr"
    THEN [st |-> st, err |-> "EIO"]
    ELSE IF workErr = "nil"
    THEN [st |-> st, err |-> CloseErr(fault)]
    ELSE [st |-> [st EXCEPT !.lasterr = workErr], err |-> CloseErr(fault)]

\* the lasterr part of workDoneOnRepo: remove the old marker (its absence
\* is not an error), then write workErr's text when there is one
WriteLastErr(st, workErr, fault) ==
    IF fault = "remove_lasterr"
    THEN [st |-> st, err |-> "EIO"]
    ELSE IF workErr = "nil"
    THEN [st |-> [st EXCEPT !.lasterr = NoErrFile], err |-> CloseErr(fault)]
    ELSE IF fault = "create_lasterr"
    THEN [st |-> [st EXCEPT !.lasterr = NoErrFile], err |-> "EIO"]
    ELSE IF fault = "write_lasterr"
    THEN [st |-> [st EXCEPT !.lasterr = ""], err |-> "EIO"]
    ELSE [st |-> [st EXCEPT !.lasterr = workErr], err |-> CloseErr(fault)]

\* workDoneOnRepo after the lock is taken: Remove of the working marker
\* (an absent marker makes Remove fail with a not-exist error, the case
\* line 269 tests for on the lasterr marker and line 262 does not), then
\* the lasterr part
WorkDoneBody(st, workErr, fault) ==
    IF st.working = NoFile
    THEN [st |-> st, err |-> "ENOENT"]
    ELSE IF fault = "remove_working"
    THEN [st |-> st, err |-> "EIO"]
    ELSE WriteLastErr([st EXCEPT !.working = NoFile], workErr, fault)

\* canWorkOnRepo, from the lock to the deferred Close
CanWorkOnRepo(st, localNow, currCommonTime, fault) ==
    LET l == LockFile(st, fault) IN
    IF ~l.locked
    THEN [st |-> l.st, canWork |-> FALSE, err |-> l.err]
    ELSE CanWorkBody(l.st, localNow, currCommonTime, fault)

\* workDoneOnRepo, from the lock to the deferred Close
WorkDoneOnRepo(st, workErr, fault) ==
    LET l == LockFile(st, fault) IN
    IF ~l.locked
    THEN [st |-> l.st, err |-> l.err]
    ELSE WorkDoneBody(l.st, workErr, fault)

\* the store operation that fails in one call (at most one per call)
LockFaults == {"none", "create_lock", "lock"}
CanWorkFaults == {"none", "stat", "create_working", "close_working",
                  "chtimes", "close_lock"}
WorkDoneFaults == {"none", "remove_working", "remove_lasterr",
                   "create_lasterr", "write_lasterr", "close_lock"}

\* ---------------------------------------------------------------------
\* Initial states
\* ---------------------------------------------------------------------

\* NewAutogitManager lines 121-122 and 131: the delete queue is empty and
\* deleteLoop is at the top of its loop; no Delete call was made yet
InitDelete ==
    /\ deleteQueue = <<>>
    /\ dreqId = [d \in DReqs |-> 0]
    /\ dcpc = [d \in DReqs |-> "idle"]
    /\ dcret = [d \in DReqs |-> NoReq]
    /\ dpc = "idle"
    /\ dreq = NoReq
    /\ derr = "nil"
    /\ djob = "none"
    /\ drel = "none"
    /\ ddoneCh = [d \in DReqs |-> 0]

\* NewAutogitManager lines 119-122: both queues and both done channels open
InitShutdown ==
    /\ resetClosed = FALSE
    /\ deleteClosed = FALSE
    /\ queueDoneCh = FALSE
    /\ deleteDoneCh = FALSE
    /\ spc = "idle"

\* no registry call was made yet
NoCall == [op |-> "none", node |-> 0, batch |-> <<>>, tried |-> FALSE,
           ok |-> FALSE]

\* NewAutogitManager lines 125-127: empty registry, no hook running
InitRegistry ==
    /\ registeredFBs = {}
    /\ repoNodes = {}
    /\ watchedNodes = <<>>
    /\ subscribed = [fb \in Scopes |-> 0]
    /\ updatingWG = 0
    /\ hooks = [n \in Nodes |-> 0]
    /\ rres = NoCall

\* NewAutogitManager: empty queue and maps, workers at the top of their
\* loop; no caller has called yet
InitManager ==
    /\ resetQueue = <<>>
    /\ resetsInQueue = [i \in Ids |-> NoReq]
    /\ resetsInProgress = [i \in Ids |-> NoReq]
    /\ resetsWG = 0
    /\ doneCh = [r \in Reqs |-> 0]
    /\ reqId = [r \in Reqs |-> 0]
    /\ cpc = [c \in Callers |-> "idle"]
    /\ cret = [c \in Callers |-> NoReq]
    /\ asyncPush = {}
    /\ wpc = [w \in Workers |-> "idle"]
    /\ wreq = [w \in Workers |-> NoReq]
    /\ wwait = [w \in Workers |-> NoReq]
    /\ werr = [w \in Workers |-> "nil"]
    /\ wjob = [w \in Workers |-> "none"]
    /\ wrel = [w \in Workers |-> "none"]
    /\ claims = [r \in Reqs |-> 0]
    /\ retired = [r \in Reqs |-> 0]
    /\ cloneLocked = {}
    /\ InitDelete
    /\ InitShutdown
    /\ InitRegistry

NoResult == [op |-> "none", found |-> "none", canWork |-> FALSE, err |-> "nil"]

\* what a Stat of the working marker shows at common time t
Found(st, t) ==
    IF st.working = NoFile THEN "absent"
    ELSE IF st.working + workTimeLimit <= t THEN "expired"
    ELSE "live"

InitLease ==
    /\ lpc = [p \in Procs |-> "idle"]
    /\ lres = [p \in Procs |-> NoResult]
    /\ lheld = [p \in Procs |-> FALSE]
    /\ lgrant = [p \in Procs |-> 0]

\* ---------------------------------------------------------------------
\* Lease processes: independent processes (other devices) that acquire
\* and release the lease of LeaseId through the shared store.  lres holds
\* what the call a process has just returned from gave back, until the
\* process starts its next call.
\* ---------------------------------------------------------------------

Tick ==
    /\ now < MaxTime
    /\ now' = now + 1
    /\ UNCHANGED <<mgrVars, storeVars, clockVars, leaseVars, ghostVars,
                   delVars, shutVars, regVars, cloneLocked, tree>>

\* canWorkOnRepo lines 170-188: blocks while another process holds the lock
LCanWorkLock(p) ==
    /\ lpc[p] = "idle"
    /\ lockHolder[LeaseId] = 0
    /\ \E fault \in LockFaults :
         LET r == LockFile(store[LeaseId], fault) IN
         /\ store' = [store EXCEPT ![LeaseId] = r.st]
         /\ IF r.locked
            THEN /\ lockHolder' = [lockHolder EXCEPT ![LeaseId] = p]
                 /\ lpc' = [lpc EXCEPT ![p] = "cwLocked"]
                 /\ lres' = [lres EXCEPT ![p] = NoResult]
            ELSE /\ lockHolder' = lockHolder
                 /\ lpc' = lpc
                 /\ lres' = [lres EXCEPT ![p] =
                       [op |-> "canWorkLock", found |-> "none",
                        canWork |-> FALSE, err |-> r.err]]
    /\ UNCHANGED <<mgrVars, now, clockVars, lheld, lgrant, ghostVars,
                   delVars, shutVars, regVars, cloneLocked, tree>>

\* canWorkOnRepo lines 190-228 and the deferred Close
LCanWorkBody(p) ==
    /\ lpc[p] = "cwLocked"
    /\ \E fault \in CanWorkFaults :
         LET r == CanWorkBody(store[LeaseId], LocalNow(p), CommonTime(p), fault) IN
         /\ store' = [store EXCEPT ![LeaseId] = r.st]
         /\ lres' = [lres EXCEPT ![p] =
               [op |-> "canWork",
                found |-> IF fault = "stat" THEN "none"
                          ELSE Found(store[LeaseId], CommonTime(p)),
                canWork |-> r.canWork, err |-> r.err]]
         /\ lpc' = [lpc EXCEPT ![p] =
               IF r.canWork /\ r.err = "nil" THEN "working" ELSE "idle"]
         /\ lheld' = [lheld EXCEPT ![p] = lheld[p] \/ r.canWork]
         /\ lgrant' = [lgrant EXCEPT ![p] = IF r.canWork THEN now ELSE lgrant[p]]
    /\ lockHolder' = [lockHolder EXCEPT ![LeaseId] = 0]
    /\ UNCHANGED <<mgrVars, now, clockVars, ghostVars,
                   delVars, shutVars, regVars, cloneLocked, tree>>

\* the owner stops (crash or restart) without releasing; recovery is by
\* expiry of the marker
LCrash(p) ==
    /\ lpc[p] = "working"
    /\ lpc' = [lpc EXCEPT ![p] = "idle"]
    /\ lres' = [lres EXCEPT ![p] = NoResult]
    /\ UNCHANGED <<mgrVars, storeVars, now, clockVars, lheld, lgrant, ghostVars,
                   delVars, shutVars, regVars, cloneLocked, tree>>

\* workDoneOnRepo lines 239-259
LWorkDoneLock(p) ==
    /\ lpc[p] = "working"
    /\ lockHolder[LeaseId] = 0
    /\ \E fault \in LockFaults :
         LET r == LockFile(store[LeaseId], fault) IN
         /\ store' = [store EXCEPT ![LeaseId] = r.st]
         /\ IF r.locked
            THEN /\ lockHolder' = [lockHolder EXCEPT ![LeaseId] = p]
                 /\ lpc' = [lpc EXCEPT ![p] = "wdLocked"]
                 /\ lres' = [lres EXCEPT ![p] = NoResult]
                 /\ UNCHANGED <<lheld, lgrant>>
            ELSE /\ lockHolder' = lockHolder
                 /\ lpc' = [lpc EXCEPT ![p] = "idle"]
                 /\ lres' = [lres EXCEPT ![p] =
                       [op |-> "workDoneLock", found |-> "none",
                        canWork |-> FALSE, err |-> r.err]]
                 /\ lheld' = [lheld EXCEPT ![p] = FALSE]
                 /\ lgrant' = [lgrant EXCEPT ![p] = 0]
    /\ UNCHANGED <<mgrVars, now, clockVars, ghostVars,
                   delVars, shutVars, regVars, cloneLocked, tree>>

\* workDoneOnRepo lines 261-287 and the deferred Close
LWorkDoneBody(p) ==
    /\ lpc[p] = "wdLocked"
    /\ \E workErr \in JobErrs, fault \in WorkDoneFaults :
         LET r == WorkDoneBody(store[LeaseId], workErr, fault) IN
         /\ store' = [store EXCEPT ![LeaseId] = r.st]
         /\ lres' = [lres EXCEPT ![p] =
               [op |-> "workDone", found |-> "none",
                canWork |-> FALSE, err |-> r.err]]
    /\ lpc' = [lpc EXCEPT ![p] = "idle"]
    /\ lheld' = [lheld EXCEPT ![p] = FALSE]
    /\ lgrant' = [lgrant EXCEPT ![p] = 0]
    /\ lockHolder' = [lockHolder EXCEPT ![LeaseId] = 0]
    /\ UNCHANGED <<mgrVars, now, clockVars, ghostVars,
                   delVars, shutVars, regVars, cloneLocked, tree>>

\* Two processes whose clocks differ by less than workTimeLimit, each with
\* or without an offset estimate; only acquire attempts
SkewInit ==
    /\ InitManager
    /\ InitLease
    /\ store = [i \in Ids |-> FreshStore]
    /\ tree = [i \in Ids |-> "full"]
    /\ lockHolder = [i \in Ids |-> 0]
    /\ now = 0
    /\ skew \in [Procs -> Skews]
    /\ \A p, q \in Procs : skew[p] - skew[q] < workTimeLimit
    /\ haveOffset \in [Procs -> BOOLEAN]

SkewNext ==
    \/ Tick
    \/ \E p \in Procs : LCanWorkLock(p)
    \/ \E p \in Procs : LCanWorkBody(p)
    \/ \E p \in Procs : LCrash(p)

SkewSpec == SkewInit /\ [][SkewNext]_vars

\* Processes whose offsets are known, so that their common times agree
\* whatever their local clocks; acquiring and releasing
LeaseInit ==
    /\ InitManager
    /\ InitLease
    /\ store = [i \in Ids |-> FreshStore]
    /\ tree = [i \in Ids |-> "full"]
    /\ lockHolder = [i \in Ids |-> 0]
    /\ now = 0
    /\ skew \in [Procs -> Skews]
    /\ haveOffset = [p \in Procs |-> TRUE]

LeaseNext ==
    \/ Tick
    \/ \E p \in Procs : LCanWorkLock(p)
    \/ \E p \in Procs : LCanWorkBody(p)
    \/ \E p \in Procs : LWorkDoneLock(p)
    \/ \E p \in Procs : LWorkDoneBody(p)

LeaseSpec == LeaseInit /\ [][LeaseNext]_vars

\* ---------------------------------------------------------------------
\* The manager: Pull/Clone callers (queueReset) and the reset workers
\* ---------------------------------------------------------------------

\* queueReset that registers every request, queued duplicate or not
QueueResetLocked_NoCoalesce(inQueue, wg, req, id) ==
    [doneCh |-> NoReq, inQueue |-> [inQueue EXCEPT ![id] = req], wg |-> wg + 1]

\* queueReset that counts the request before looking for a queued duplicate
QueueResetLocked_AddFirst(inQueue, wg, req, id) ==
    IF inQueue[id] # NoReq
    THEN [doneCh |-> inQueue[id], inQueue |-> inQueue, wg |-> wg + 1]
    ELSE [doneCh |-> NoReq, inQueue |-> [inQueue EXCEPT ![id] = req],
          wg |-> wg + 1]

\* queueReset that registers req without counting it
QueueResetLocked_NoAdd(inQueue, wg, req, id) ==
    IF inQueue[id] # NoReq
    THEN [doneCh |-> inQueue[id], inQueue |-> inQueue, wg |-> wg]
    ELSE [doneCh |-> NoReq, inQueue |-> [inQueue EXCEPT ![id] = req],
          wg |-> wg]

\* queueReset lines 431-440, under am.lock: the signal of the request
\* already queued under id, or the registration of req
QueueResetLocked(inQueue, wg, req, id) ==
    IF inQueue[id] # NoReq
    THEN [doneCh |-> inQueue[id], inQueue |-> inQueue, wg |-> wg]
    ELSE [doneCh |-> NoReq, inQueue |-> [inQueue EXCEPT ![id] = req],
          wg |-> wg + 1]

\* markResetReqInProgress that forgets to enter req in the in-progress map
MarkResetReqInProgress_NoInsert(inQueue, inProgress, req, id) ==
    IF inProgress[id] # NoReq
    THEN [waitCh |-> inProgress[id], inQueue |-> inQueue,
          inProgress |-> inProgress]
    ELSE [waitCh |-> NoReq, inQueue |-> [inQueue EXCEPT ![id] = NoReq],
          inProgress |-> inProgress]

\* markResetReqInProgress that claims without looking at the in-progress map
MarkResetReqInProgress_NoCheck(inQueue, inProgress, req, id) ==
    [waitCh |-> NoReq, inQueue |-> [inQueue EXCEPT ![id] = NoReq],
     inProgress |-> [inProgress EXCEPT ![id] = req]]

\* markResetReqInProgress that leaves the claimed request in the queued map
MarkResetReqInProgress_KeepQueued(inQueue, inProgress, req, id) ==
    IF inProgress[id] # NoReq
    THEN [waitCh |-> inProgress[id], inQueue |-> inQueue,
          inProgress |-> inProgress]
    ELSE [waitCh |-> NoReq, inQueue |-> inQueue,
          inProgress |-> [inProgress EXCEPT ![id] = req]]

\* markResetReqInProgress, under am.lock
MarkResetReqInProgress(inQueue, inProgress, req, id) ==
    IF inProgress[id] # NoReq
    THEN [waitCh |-> inProgress[id], inQueue |-> inQueue,
          inProgress |-> inProgress]
    ELSE [waitCh |-> NoReq, inQueue |-> [inQueue EXCEPT ![id] = NoReq],
          inProgress |-> [inProgress EXCEPT ![id] = req]]

\* Pull (lines 689-692) builds req for identity id and calls queueReset,
\* which runs its locked section (lines 430-443).  Calls, and the requests
\* they build, are numbered in the order they enter the locked section,
\* and identities in the order they are first used.
QueueReset(c, id) ==
    /\ cpc[c] = "idle"
    /\ \A b \in Callers : b < c => cpc[b] # "idle"
    /\ \A j \in Ids : j < id => \E b \in Callers : reqId[b] = j
    /\ LET r == QueueResetLocked(resetsInQueue, resetsWG, c, id) IN
       /\ reqId' = [reqId EXCEPT ![c] = id]
       /\ resetsInQueue' = r.inQueue
       /\ resetsWG' = r.wg
       /\ cret' = [cret EXCEPT ![c] = r.doneCh]
       /\ cpc' = [cpc EXCEPT ![c] = IF r.doneCh # NoReq THEN "done" ELSE "select"]
    /\ UNCHANGED <<resetQueue, resetsInProgress, doneCh, asyncPush, wpc, wreq,
                   wwait, werr, wjob, wrel, storeVars, now, clockVars, leaseVars, ghostVars,
                   delVars, shutVars, regVars, cloneLocked, tree>>

\* queueReset lines 444-446 and 453: the push succeeds
QueueResetPush(c) ==
    /\ cpc[c] = "select"
    /\ resetQueue' = Append(resetQueue, c)
    /\ cret' = [cret EXCEPT ![c] = c]
    /\ cpc' = [cpc EXCEPT ![c] = "done"]
    /\ UNCHANGED <<resetsInQueue, resetsInProgress, resetsWG, doneCh, reqId,
                   asyncPush, wpc, wreq, wwait, werr, wjob, wrel, storeVars, now,
                   clockVars, leaseVars, ghostVars,
                   delVars, shutVars, regVars, cloneLocked, tree>>

\* the cancelled branch that starts the pushing goroutine and pushes too
QueueResetCancel_PushTwice(c) ==
    /\ cpc[c] = "select"
    /\ asyncPush' = asyncPush \cup {c}
    /\ resetQueue' = Append(resetQueue, c)
    /\ cret' = [cret EXCEPT ![c] = CtxErr]
    /\ cpc' = [cpc EXCEPT ![c] = "done"]
    /\ UNCHANGED <<resetsInQueue, resetsInProgress, resetsWG,
                   doneCh, reqId, wpc, wreq, wwait, werr, wjob, wrel, storeVars, now,
                   clockVars, leaseVars, ghostVars,
                   delVars, shutVars, regVars, cloneLocked, tree>>

\* the cancelled branch that returns ctx.Err() and drops the request
QueueResetCancel_Drop(c) ==
    /\ cpc[c] = "select"
    /\ cret' = [cret EXCEPT ![c] = CtxErr]
    /\ cpc' = [cpc EXCEPT ![c] = "done"]
    /\ UNCHANGED <<resetQueue, resetsInQueue, resetsInProgress, resetsWG,
                   doneCh, reqId, asyncPush, wpc, wreq, wwait, werr, wjob, wrel,
                   storeVars, now, clockVars, leaseVars, ghostVars,
                   delVars, shutVars, regVars, cloneLocked, tree>>

\* queueReset lines 447-451: ctx is done first; a goroutine is started to
\* push the request and the caller gets ctx.Err()
QueueResetCancel(c) ==
    /\ cpc[c] = "select"
    /\ asyncPush' = asyncPush \cup {c}
    /\ cret' = [cret EXCEPT ![c] = CtxErr]
    /\ cpc' = [cpc EXCEPT ![c] = "done"]
    /\ UNCHANGED <<resetQueue, resetsInQueue, resetsInProgress, resetsWG,
                   doneCh, reqId, wpc, wreq, wwait, werr, wjob, wrel, storeVars, now,
                   clockVars, leaseVars, ghostVars,
                   delVars, shutVars, regVars, cloneLocked, tree>>

\* the goroutine of line 450
AsyncPush(r) ==
    /\ r \in asyncPush
    /\ resetQueue' = Append(resetQueue, r)
    /\ asyncPush' = asyncPush \ {r}
    /\ UNCHANGED <<resetsInQueue, resetsInProgress, resetsWG, doneCh, reqId,
                   cpc, cret, wpc, wreq, wwait, werr, wjob, wrel, storeVars, now,
                   clockVars, leaseVars, ghostVars,
                   delVars, shutVars, regVars, cloneLocked, tree>>

\* resetWorker line 386: the next request of the queue
Dequeue(w) ==
    /\ wpc[w] = "idle"
    /\ resetQueue # <<>>
    /\ wreq' = [wreq EXCEPT ![w] = Head(resetQueue)]
    /\ resetQueue' = Tail(resetQueue)
    /\ wpc' = [wpc EXCEPT ![w] = "mark"]
    /\ UNCHANGED <<resetsInQueue, resetsInProgress, resetsWG, doneCh, reqId,
                   cpc, cret, asyncPush, wwait, werr, wjob, wrel, storeVars, now,
                   clockVars, leaseVars, ghostVars,
                   delVars, shutVars, regVars, cloneLocked, tree>>

\* resetWorker lines 393-396
Mark(w) ==
    /\ wpc[w] = "mark"
    /\ LET req == wreq[w]
           id == reqId[req]
           r == MarkResetReqInProgress(resetsInQueue, resetsInProgress, req, id) IN
       /\ resetsInQueue' = r.inQueue
       /\ resetsInProgress' = r.inProgress
       /\ wwait' = [wwait EXCEPT ![w] = r.waitCh]
       /\ IF r.waitCh = NoReq
          THEN /\ wpc' = [wpc EXCEPT ![w] = "doReset"]
               /\ claims' = [claims EXCEPT ![req] = claims[req] + 1]
          ELSE /\ wpc' = [wpc EXCEPT ![w] = "wait"]
               /\ UNCHANGED claims
    /\ UNCHANGED <<resetQueue, resetsWG, doneCh, reqId, cpc, cret, asyncPush,
                   wreq, werr, wjob, wrel, storeVars, now, clockVars, leaseVars, retired,
                   delVars, shutVars, regVars, cloneLocked, tree>>

\* resetWorker line 403: <-waitCh returns once the channel is closed
WaitDone(w) ==
    /\ wpc[w] = "wait"
    /\ doneCh[wwait[w]] >= 1
    /\ wpc' = [wpc EXCEPT ![w] = "mark"]
    /\ UNCHANGED <<resetQueue, resetsInQueue, resetsInProgress, resetsWG,
                   doneCh, reqId, cpc, cret, asyncPush, wreq, wwait, werr, wjob, wrel,
                   storeVars, now, clockVars, leaseVars, ghostVars,
                   delVars, shutVars, regVars, cloneLocked, tree>>

\* doReset lines 299-344: the per-request config, the source repo and the
\* destination FS may each fail; then canWorkOnRepo
DoResetCanWork(w) ==
    /\ wpc[w] = "doReset"
    /\ LET req == wreq[w]
           id == reqId[req] IN
       \/ /\ werr' = [werr EXCEPT ![w] = "SetupErr"]
          /\ wpc' = [wpc EXCEPT ![w] = "clear"]
          /\ UNCHANGED store
       \/ /\ lockHolder[id] = 0
          /\ \E fault \in LockFaults \cup CanWorkFaults :
               LET r == CanWorkOnRepo(store[id], LocalNow(Me), CommonTime(Me), fault) IN
               /\ store' = [store EXCEPT ![id] = r.st]
               /\ IF r.err # "nil"
                  THEN /\ werr' = [werr EXCEPT ![w] = r.err]
                       /\ wpc' = [wpc EXCEPT ![w] = "clear"]
                  ELSE IF ~r.canWork
                  THEN /\ werr' = [werr EXCEPT ![w] = "nil"]
                       /\ wpc' = [wpc EXCEPT ![w] = "clear"]
                  ELSE /\ wpc' = [wpc EXCEPT ![w] = "reset"]
                       /\ UNCHANGED werr
    /\ UNCHANGED <<resetQueue, resetsInQueue, resetsInProgress, resetsWG,
                   doneCh, reqId, cpc, cret, asyncPush, wreq, wwait, wjob, wrel,
                   lockHolder, now, clockVars, leaseVars, claims, retired,
                   delVars, shutVars, regVars, cloneLocked, tree>>

\* doReset lines 345-361: Chroot and Reset succeed or fail, then the
\* deferred workDoneOnRepo, whose error is reported when the job had none
DoResetRun(w) ==
    /\ wpc[w] = "reset"
    /\ LET req == wreq[w]
           id == reqId[req] IN
       /\ lockHolder[id] = 0
       /\ \E jobErr \in JobErrs, fault \in LockFaults \cup WorkDoneFaults :
            LET r == WorkDoneOnRepo(store[id], jobErr, fault) IN
            /\ store' = [store EXCEPT ![id] = r.st]
            /\ wjob' = [wjob EXCEPT ![w] = jobErr]
            /\ wrel' = [wrel EXCEPT ![w] = r.err]
            /\ werr' = [werr EXCEPT ![w] = IF jobErr = "nil" THEN r.err ELSE jobErr]
            /\ tree' = [tree EXCEPT ![id] = IF jobErr = "nil" THEN "full" ELSE @]
    /\ wpc' = [wpc EXCEPT ![w] = "clear"]
    /\ UNCHANGED <<resetQueue, resetsInQueue, resetsInProgress, resetsWG,
                   doneCh, reqId, cpc, cret, asyncPush, wreq, wwait,
                   lockHolder, now, clockVars, leaseVars, claims, retired,
                   delVars, shutVars, regVars, cloneLocked>>

\* clearFromInProgress that leaves the in-progress entry in place
ClearFromInProgress_NoDelete(w) ==
    /\ wpc[w] = "clear"
    /\ resetsWG' = resetsWG - 1
    /\ retired' = [retired EXCEPT ![wreq[w]] = retired[wreq[w]] + 1]
    /\ wpc' = [wpc EXCEPT ![w] = "close"]
    /\ werr' = [werr EXCEPT ![w] = "nil"]
    /\ wjob' = [wjob EXCEPT ![w] = "none"]
    /\ wrel' = [wrel EXCEPT ![w] = "none"]
    /\ UNCHANGED <<resetQueue, resetsInQueue, resetsInProgress, doneCh, reqId,
                   cpc, cret, asyncPush, wreq, wwait, storeVars, now,
                   clockVars, leaseVars, claims,
                   delVars, shutVars, regVars, cloneLocked, tree>>

\* clearFromInProgress, under am.lock
ClearFromInProgress(w) ==
    /\ wpc[w] = "clear"
    /\ resetsInProgress' = [resetsInProgress EXCEPT ![reqId[wreq[w]]] = NoReq]
    /\ resetsWG' = resetsWG - 1
    /\ retired' = [retired EXCEPT ![wreq[w]] = retired[wreq[w]] + 1]
    /\ wpc' = [wpc EXCEPT ![w] = "close"]
    /\ werr' = [werr EXCEPT ![w] = "nil"]
    /\ wjob' = [wjob EXCEPT ![w] = "none"]
    /\ wrel' = [wrel EXCEPT ![w] = "none"]
    /\ UNCHANGED <<resetQueue, resetsInQueue, doneCh, reqId, cpc, cret,
                   asyncPush, wreq, wwait, storeVars, now, clockVars,
                   leaseVars, claims,
                   delVars, shutVars, regVars, cloneLocked, tree>>

\* resetWorker line 414, then back to the top of the loop
CloseDoneCh(w) ==
    /\ wpc[w] = "close"
    /\ doneCh' = [doneCh EXCEPT ![wreq[w]] = doneCh[wreq[w]] + 1]
    /\ wpc' = [wpc EXCEPT ![w] = "idle"]
    /\ wreq' = [wreq EXCEPT ![w] = NoReq]
    /\ UNCHANGED <<resetQueue, resetsInQueue, resetsInProgress, resetsWG,
                   reqId, cpc, cret, asyncPush, wwait, werr, wjob, wrel, storeVars, now,
                   clockVars, leaseVars, ghostVars,
                   delVars, shutVars, regVars, cloneLocked, tree>>

Init ==
    /\ InitManager
    /\ InitLease
    /\ store = [i \in Ids |-> FreshStore]
    /\ tree = [i \in Ids |-> "full"]
    /\ lockHolder = [i \in Ids |-> 0]
    /\ now = 0
    /\ skew = [p \in Procs |-> 0]
    /\ haveOffset = [p \in Procs |-> TRUE]

Next ==
    \/ \E c \in Callers, id \in Ids : QueueReset(c, id)
    \/ \E c \in Callers : QueueResetPush(c)
    \/ \E c \in Callers : QueueResetCancel(c)
    \/ \E r \in Reqs : AsyncPush(r)
    \/ \E w \in Workers : Dequeue(w)
    \/ \E w \in Workers : Mark(w)
    \/ \E w \in Workers : WaitDone(w)
    \/ \E w \in Workers : DoResetCanWork(w)
    \/ \E w \in Workers : DoResetRun(w)
    \/ \E w \in Workers : ClearFromInProgress(w)
    \/ \E w \in Workers : CloseDoneCh(w)

Spec == Init /\ [][Next]_vars

\* Scheduling: every goroutine that can take a step eventually takes it.
\* The queue is unbounded, so the select of queueReset always has a ready
\* case; when a caller submits is left to the caller.
Fairness ==
    /\ \A c \in Callers : WF_vars(QueueResetPush(c) \/ QueueResetCancel(c))
    /\ \A r \in Reqs : WF_vars(AsyncPush(r))
    /\ \A w \in Workers :
         /\ WF_vars(Dequeue(w))
         /\ WF_vars(Mark(w))
         /\ WF_vars(WaitDone(w))
         /\ WF_vars(DoResetCanWork(w))
         /\ WF_vars(DoResetRun(w))
         /\ WF_vars(ClearFromInProgress(w))
         /\ WF_vars(CloseDoneCh(w))

FairSpec == Init /\ [][Next]_vars /\ Fairness

\* ---------------------------------------------------------------------
\* The delete pipeline: Delete callers and deleteLoop
\* ---------------------------------------------------------------------

DeleteErrTexts == {"DeleteErr"}

\* removeLock lines 456-474: Remove of the lock file, SyncAll and
\* FinishSingleOp may each fail
RemoveLock(st, fault) ==
    IF fault = "remove_lock"
    THEN [st |-> st, err |-> "EIO"]
    ELSE IF fault = "sync_lock"
    THEN [st |-> [st EXCEPT !.lock = FALSE], err |-> "EIO"]
    ELSE [st |-> [st EXCEPT !.lock = FALSE], err |-> "nil"]

RemoveLockFaults == {"none", "remove_lock", "sync_lock"}

\* doDelete lines 540-544: Stat of the repo directory fails when it does
\* not exist; recursiveDelete removes it or fails and leaves it
DeleteJobErrs(t) ==
    IF t = "absent" THEN {"ENOENT"} ELSE {"nil"} \cup DeleteErrTexts

\* the deferred function of doDelete that lets the release result replace
\* the job's error
DeleteErr_ReleaseFirst(jobErr, workDoneErr, rmErr) ==
    IF workDoneErr # "nil" THEN workDoneErr
    ELSE IF rmErr # "nil" THEN rmErr
    ELSE jobErr

\* doDelete lines 526-538: the error doDelete returns, from the job's error,
\* workDoneErr and rmErr
DeleteErr(jobErr, workDoneErr, rmErr) ==
    IF jobErr # "nil" THEN jobErr
    ELSE IF workDoneErr # "nil" THEN workDoneErr
    ELSE rmErr

\* Delete that hands out the signal of a request already queued for the
\* same target
DeletePush_Coalesce(d, id) ==
    /\ dcpc[d] = "idle"
    /\ \A b \in DReqs : b < d => dcpc[b] # "idle"
    /\ spc = "idle"
    /\ dreqId' = [dreqId EXCEPT ![d] = id]
    /\ IF \E k \in 1..Len(deleteQueue) : dreqId[deleteQueue[k]] = id
       THEN /\ dcret' = [dcret EXCEPT ![d] =
                  deleteQueue[CHOOSE k \in 1..Len(deleteQueue) :
                                  dreqId[deleteQueue[k]] = id]]
            /\ UNCHANGED deleteQueue
       ELSE /\ dcret' = [dcret EXCEPT ![d] = d]
            /\ deleteQueue' = Append(deleteQueue, d)
    /\ dcpc' = [dcpc EXCEPT ![d] = "done"]
    /\ UNCHANGED <<mgrVars, storeVars, now, clockVars, leaseVars, ghostVars,
                   tree, cloneLocked, dpc, dreq, derr, djob, drel, ddoneCh,
                   shutVars, regVars>>

\* Delete lines 711-716 and 720: the request is built and pushed.  Calls
\* are numbered in the order they are made.
DeletePush(d, id) ==
    /\ dcpc[d] = "idle"
    /\ \A b \in DReqs : b < d => dcpc[b] # "idle"
    /\ spc = "idle"
    /\ dreqId' = [dreqId EXCEPT ![d] = id]
    /\ deleteQueue' = Append(deleteQueue, d)
    /\ dcret' = [dcret EXCEPT ![d] = d]
    /\ dcpc' = [dcpc EXCEPT ![d] = "done"]
    /\ UNCHANGED <<mgrVars, storeVars, now, clockVars, leaseVars, ghostVars,
                   tree, cloneLocked, dpc, dreq, derr, djob, drel, ddoneCh,
                   shutVars, regVars>>

\* Delete lines 717-718: ctx is done first; the request is not queued
DeleteCancel(d, id) ==
    /\ dcpc[d] = "idle"
    /\ \A b \in DReqs : b < d => dcpc[b] # "idle"
    /\ spc = "idle"
    /\ dreqId' = [dreqId EXCEPT ![d] = id]
    /\ dcret' = [dcret EXCEPT ![d] = CtxErr]
    /\ dcpc' = [dcpc EXCEPT ![d] = "done"]
    /\ UNCHANGED <<mgrVars, storeVars, now, clockVars, leaseVars, ghostVars,
                   tree, cloneLocked, deleteQueue, dpc, dreq, derr, djob,
                   drel, ddoneCh, shutVars, regVars>>

\* deleteLoop lines 548-549: the next request of the queue
DeleteDequeue ==
    /\ dpc = "idle"
    /\ deleteQueue # <<>>
    /\ dreq' = Head(deleteQueue)
    /\ deleteQueue' = Tail(deleteQueue)
    /\ dpc' = "doDelete"
    /\ UNCHANGED <<mgrVars, storeVars, now, clockVars, leaseVars, ghostVars,
                   tree, cloneLocked, dreqId, dcpc, dcret, derr, djob, drel,
                   ddoneCh, shutVars, regVars>>

\* doDelete lines 488-525: the per-request config and the destination FS
\* may each fail; then canWorkOnRepo
DoDeleteCanWork ==
    /\ dpc = "doDelete"
    /\ LET id == dreqId[dreq] IN
       \/ /\ derr' = "SetupErr"
          /\ dpc' = "close"
          /\ UNCHANGED store
       \/ /\ lockHolder[id] = 0
          /\ \E fault \in LockFaults \cup CanWorkFaults :
               LET r == CanWorkOnRepo(store[id], LocalNow(Me), CommonTime(Me), fault) IN
               /\ store' = [store EXCEPT ![id] = r.st]
               /\ IF r.err # "nil"
                  THEN /\ derr' = r.err
                       /\ dpc' = "close"
                  ELSE IF ~r.canWork
                  THEN /\ derr' = "nil"
                       /\ dpc' = "close"
                  ELSE /\ dpc' = "delete"
                       /\ UNCHANGED derr
    /\ UNCHANGED <<mgrVars, lockHolder, now, clockVars, leaseVars, ghostVars,
                   tree, cloneLocked, deleteQueue, dreqId, dcpc, dcret, dreq,
                   djob, drel, ddoneCh, shutVars, regVars>>

\* doDelete lines 526-544: Stat and recursiveDelete, then the deferred
\* workDoneOnRepo and removeLock
DoDeleteRun ==
    /\ dpc = "delete"
    /\ LET id == dreqId[dreq] IN
       /\ lockHolder[id] = 0
       /\ \E jobErr \in DeleteJobErrs(tree[id]),
             fault \in LockFaults \cup WorkDoneFaults,
             rmFault \in RemoveLockFaults :
            LET r == WorkDoneOnRepo(store[id], jobErr, fault)
                rm == RemoveLock(r.st, rmFault) IN
            /\ tree' = [tree EXCEPT ![id] = IF jobErr = "nil" THEN "absent" ELSE @]
            /\ store' = [store EXCEPT ![id] = rm.st]
            /\ djob' = jobErr
            /\ drel' = IF r.err # "nil" THEN r.err ELSE rm.err
            /\ derr' = DeleteErr(jobErr, r.err, rm.err)
    /\ dpc' = "close"
    /\ UNCHANGED <<mgrVars, lockHolder, now, clockVars, leaseVars, ghostVars,
                   cloneLocked, deleteQueue, dreqId, dcpc, dcret, dreq,
                   ddoneCh, shutVars, regVars>>

\* deleteLoop line 551, then back to the top of the loop
DeleteCloseDoneCh ==
    /\ dpc = "close"
    /\ ddoneCh' = [ddoneCh EXCEPT ![dreq] = ddoneCh[dreq] + 1]
    /\ dpc' = "idle"
    /\ dreq' = NoReq
    /\ derr' = "nil"
    /\ djob' = "none"
    /\ drel' = "none"
    /\ UNCHANGED <<mgrVars, storeVars, now, clockVars, leaseVars, ghostVars,
                   tree, cloneLocked, deleteQueue, dreqId, dcpc, dcret,
                   shutVars, regVars>>

\* ---------------------------------------------------------------------
\* Shutdown: the queues are closed, the loops drain them and exit
\* ---------------------------------------------------------------------

\* resetWorker that leaves its loop as soon as the queue is closed
WorkerExit_NoDrain(w) ==
    /\ wpc[w] = "idle"
    /\ resetClosed
    /\ wpc' = [wpc EXCEPT ![w] = "exited"]
    /\ UNCHANGED <<resetQueue, resetsInQueue, resetsInProgress, resetsWG,
                   doneCh, reqId, cpc, cret, asyncPush, wreq, wwait, werr,
                   wjob, wrel, storeVars, now, clockVars, leaseVars,
                   ghostVars, tree, cloneLocked, delVars, shutVars, regVars>>

\* resetWorker lines 385-386: the range over am.resetQueue.Out() ends when
\* the queue is closed and empty, and the deferred wg.Done() runs
WorkerExit(w) ==
    /\ wpc[w] = "idle"
    /\ resetClosed
    /\ resetQueue = <<>>
    /\ wpc' = [wpc EXCEPT ![w] = "exited"]
    /\ UNCHANGED <<resetQueue, resetsInQueue, resetsInProgress, resetsWG,
                   doneCh, reqId, cpc, cret, asyncPush, wreq, wwait, werr,
                   wjob, wrel, storeVars, now, clockVars, leaseVars,
                   ghostVars, tree, cloneLocked, delVars, shutVars, regVars>>

\* resetLoop lines 424-425: wg.Wait() returns when every worker has exited
ResetLoopDone ==
    /\ ~queueDoneCh
    /\ \A w \in Workers : wpc[w] = "exited"
    /\ queueDoneCh' = TRUE
    /\ UNCHANGED <<mgrVars, storeVars, now, clockVars, leaseVars, ghostVars,
                   tree, cloneLocked, delVars, resetClosed, deleteClosed,
                   deleteDoneCh, spc, regVars>>

\* deleteLoop lines 548 and 553: the range ends when the queue is closed
\* and empty
DeleteLoopExit ==
    /\ dpc = "idle"
    /\ deleteClosed
    /\ deleteQueue = <<>>
    /\ dpc' = "exited"
    /\ deleteDoneCh' = TRUE
    /\ UNCHANGED <<mgrVars, storeVars, now, clockVars, leaseVars, ghostVars,
                   tree, cloneLocked, deleteQueue, dreqId, dcpc, dcret, dreq,
                   derr, djob, drel, ddoneCh, resetClosed, deleteClosed,
                   queueDoneCh, spc, regVars>>

\* Shutdown lines 137-138.  A send on a closed queue panics, so Shutdown is
\* called when no Pull, Clone or Delete is under way, and none is made
\* after it.
ShutdownClose ==
    /\ spc = "idle"
    /\ \A c \in Callers : cpc[c] \in {"idle", "done"}
    /\ asyncPush = {}
    /\ cloneLocked = {}
    /\ resetClosed' = TRUE
    /\ deleteClosed' = TRUE
    /\ spc' = "waitQueue"
    /\ UNCHANGED <<mgrVars, storeVars, now, clockVars, leaseVars, ghostVars,
                   tree, cloneLocked, delVars, queueDoneCh, deleteDoneCh,
                   regVars>>

\* Shutdown line 139
ShutdownWaitQueue ==
    /\ spc = "waitQueue"
    /\ queueDoneCh
    /\ spc' = "waitDelete"
    /\ UNCHANGED <<mgrVars, storeVars, now, clockVars, leaseVars, ghostVars,
                   tree, cloneLocked, delVars, resetClosed, deleteClosed,
                   queueDoneCh, deleteDoneCh, regVars>>

\* Shutdown line 140, and the return
ShutdownWaitDelete ==
    /\ spc = "waitDelete"
    /\ deleteDoneCh
    /\ spc' = "returned"
    /\ UNCHANGED <<mgrVars, storeVars, now, clockVars, leaseVars, ghostVars,
                   tree, cloneLocked, delVars, resetClosed, deleteClosed,
                   queueDoneCh, deleteDoneCh, regVars>>

\* ---------------------------------------------------------------------
\* Clone: the caller takes the lock file itself before queueReset
\* ---------------------------------------------------------------------

CloneLockFaults == {"none", "newfs", "create_lock", "lock"}
CloneBodyFaults == {"none", "mkdir", "readdir", "cloning_file", "unlock"}

\* Clone lines 606-626: the destination FS, then Create and Lock of the
\* lock file.  The lock is per instance, not per goroutine (lines 397-398):
\* it does not keep out another goroutine of this process.
CloneLock(c, id) ==
    /\ cpc[c] = "idle"
    /\ \A b \in Callers : b < c => cpc[b] # "idle"
    /\ \A j \in Ids : j < id => \E b \in Callers : reqId[b] = j
    /\ spc = "idle"
    /\ lockHolder[id] = 0
    /\ reqId' = [reqId EXCEPT ![c] = id]
    /\ \E fault \in CloneLockFaults :
         IF fault = "newfs"
         THEN /\ cret' = [cret EXCEPT ![c] = CloneErr]
              /\ cpc' = [cpc EXCEPT ![c] = "done"]
              /\ UNCHANGED <<store, cloneLocked>>
         ELSE LET r == LockFile(store[id], fault) IN
              /\ store' = [store EXCEPT ![id] = r.st]
              /\ IF r.locked
                 THEN /\ cloneLocked' = cloneLocked \cup {c}
                      /\ cpc' = [cpc EXCEPT ![c] = "clone"]
                      /\ UNCHANGED cret
                 ELSE /\ cret' = [cret EXCEPT ![c] = CloneErr]
                      /\ cpc' = [cpc EXCEPT ![c] = "done"]
                      /\ UNCHANGED cloneLocked
    /\ UNCHANGED <<resetQueue, resetsInQueue, resetsInProgress, resetsWG,
                   doneCh, asyncPush, wpc, wreq, wwait, werr, wjob, wrel,
                   lockHolder, now, clockVars, leaseVars, ghostVars, tree,
                   delVars, shutVars, regVars>>

\* Clone lines 628-657 and queueReset lines 430-443: the directory is made;
\* when it is empty the CLONING file is written and the lock file unlocked;
\* then the request is built and queueReset runs its locked section
CloneBody(c) ==
    /\ cpc[c] = "clone"
    /\ LET id == reqId[c] IN
       \E fault \in CloneBodyFaults :
         IF fault # "none" /\ (tree[id] = "absent" \/ fault \in {"mkdir", "readdir"})
         THEN /\ cret' = [cret EXCEPT ![c] = CloneErr]
              /\ cpc' = [cpc EXCEPT ![c] = "done"]
              /\ tree' = [tree EXCEPT ![id] =
                    IF @ = "absent" /\ fault = "unlock" THEN "cloning" ELSE @]
              /\ UNCHANGED <<resetsInQueue, resetsWG, cloneLocked>>
         ELSE LET r == QueueResetLocked(resetsInQueue, resetsWG, c, id) IN
              /\ tree' = [tree EXCEPT ![id] = IF @ = "absent" THEN "cloning" ELSE @]
              /\ cloneLocked' = IF tree[id] = "absent" THEN cloneLocked \ {c}
                                ELSE cloneLocked
              /\ resetsInQueue' = r.inQueue
              /\ resetsWG' = r.wg
              /\ cret' = [cret EXCEPT ![c] = r.doneCh]
              /\ cpc' = [cpc EXCEPT ![c] =
                    IF r.doneCh # NoReq THEN "done" ELSE "select"]
    /\ UNCHANGED <<resetQueue, resetsInProgress, doneCh, reqId, asyncPush,
                   wpc, wreq, wwait, werr, wjob, wrel, storeVars, now,
                   clockVars, leaseVars, ghostVars, delVars, shutVars,
                   regVars>>

\* Clone lines 617-622: the deferred Close of the lock file, which gives up
\* a lock still held, runs when Clone returns
CloneReturn(c) ==
    /\ cpc[c] = "done"
    /\ c \in cloneLocked
    /\ cloneLocked' = cloneLocked \ {c}
    /\ UNCHANGED <<mgrVars, storeVars, now, clockVars, leaseVars, ghostVars,
                   tree, delVars, shutVars, regVars>>

\* One process: Pull and Delete callers, the reset workers, the delete loop
\* and Shutdown
ManagerNext ==
    \/ \E c \in Pullers, id \in Ids : spc = "idle" /\ QueueReset(c, id)
    \/ \E c \in Pullers : QueueResetPush(c)
    \/ \E c \in Pullers : QueueResetCancel(c)
    \/ \E r \in Reqs : AsyncPush(r)
    \/ \E w \in Workers : Dequeue(w)
    \/ \E w \in Workers : Mark(w)
    \/ \E w \in Workers : WaitDone(w)
    \/ \E w \in Workers : DoResetCanWork(w)
    \/ \E w \in Workers : DoResetRun(w)
    \/ \E w \in Workers : ClearFromInProgress(w)
    \/ \E w \in Workers : CloseDoneCh(w)
    \/ \E w \in Workers : WorkerExit(w)
    \/ ResetLoopDone
    \/ \E d \in DReqs, id \in Ids : DeletePush(d, id)
    \/ \E d \in DReqs, id \in Ids : DeleteCancel(d, id)
    \/ DeleteDequeue
    \/ DoDeleteCanWork
    \/ DoDeleteRun
    \/ DeleteCloseDoneCh
    \/ DeleteLoopExit
    \/ ShutdownClose
    \/ ShutdownWaitQueue
    \/ ShutdownWaitDelete

ManagerSpec == Init /\ [][ManagerNext]_vars

\* One process: Clone and Delete callers whose contexts are not cancelled,
\* the reset workers and the delete loop
CloneNext ==
    \/ \E c \in Pullers, id \in Ids : CloneLock(c, id)
    \/ \E c \in Pullers : CloneBody(c)
    \/ \E c \in Pullers : CloneReturn(c)
    \/ \E c \in Pullers : QueueResetPush(c)
    \/ \E w \in Workers : Dequeue(w)
    \/ \E w \in Workers : Mark(w)
    \/ \E w \in Workers : WaitDone(w)
    \/ \E w \in Workers : DoResetCanWork(w)
    \/ \E w \in Workers : DoResetRun(w)
    \/ \E w \in Workers : ClearFromInProgress(w)
    \/ \E w \in Workers : CloseDoneCh(w)
    \/ \E d \in DReqs, id \in Ids : DeletePush(d, id)
    \/ DeleteDequeue
    \/ DoDeleteCanWork
    \/ DoDeleteRun
    \/ DeleteCloseDoneCh

CloneSpec == Init /\ [][CloneNext]_vars

\* ---------------------------------------------------------------------
\* The registry of watched repo nodes and the change notifications
\* ---------------------------------------------------------------------

\* everything but the registry
nonRegVars == <<mgrVars, storeVars, now, clockVars, leaseVars, ghostVars,
                tree, cloneLocked, delVars, shutVars>>

\* the batches of affected node ids a notification carries: each affected
\* id once
Batches ==
    {b \in UNION {[1..k -> Nodes] : k \in 0..MaxBatch} :
        \A i, j \in 1..Len(b) : b[i] = b[j] => i = j}

\* registerRepoNode that never records the scope as registered
RegisterRepoNode_NoMark(n) ==
    /\ Len(watchedNodes) < MaxWatches
    /\ repoNodes' = repoNodes \cup {n}
    /\ watchedNodes' = Append(watchedNodes, n)
    /\ LET fb == ScopeOf(n) IN
       IF fb \notin registeredFBs
       THEN \E ok \in BOOLEAN :
              /\ subscribed' = [subscribed EXCEPT
                                  ![fb] = IF ok THEN @ + 1 ELSE @]
              /\ registeredFBs' = registeredFBs
              /\ rres' = [op |-> "register", node |-> n, batch |-> <<>>,
                          tried |-> TRUE, ok |-> ok]
       ELSE /\ UNCHANGED <<subscribed, registeredFBs>>
            /\ rres' = [op |-> "register", node |-> n, batch |-> <<>>,
                        tried |-> FALSE, ok |-> FALSE]
    /\ UNCHANGED <<updatingWG, hooks, nonRegVars>>

\* registerRepoNode lines 723-739, under registryLock: the node is entered
\* in the map and the list; when its folder-branch is not yet registered,
\* RegisterForChanges is called, and the folder-branch is recorded only
\* when the call returns no error
RegisterRepoNode(n) ==
    /\ Len(watchedNodes) < MaxWatches
    /\ repoNodes' = repoNodes \cup {n}
    /\ watchedNodes' = Append(watchedNodes, n)
    /\ LET fb == ScopeOf(n) IN
       IF fb \notin registeredFBs
       THEN \E ok \in BOOLEAN :
              /\ subscribed' = [subscribed EXCEPT
                                  ![fb] = IF ok THEN @ + 1 ELSE @]
              /\ registeredFBs' = IF ok THEN registeredFBs \cup {fb}
                                  ELSE registeredFBs
              /\ rres' = [op |-> "register", node |-> n, batch |-> <<>>,
                          tried |-> TRUE, ok |-> ok]
       ELSE /\ UNCHANGED <<subscribed, registeredFBs>>
            /\ rres' = [op |-> "register", node |-> n, batch |-> <<>>,
                        tried |-> FALSE, ok |-> FALSE]
    /\ UNCHANGED <<updatingWG, hooks, nonRegVars>>

\* notifyNodeLocked that starts a hook whether the id is registered or not
NotifyNodeLocked_Unregistered(h, wg, id) ==
    [hooks |-> [h EXCEPT ![id] = @ + 1], wg |-> wg + 1]

\* notifyNodeLocked lines 759-774: nothing for an id without a repo node;
\* otherwise updatingWG.Add(1) and the hook is started in its own goroutine
NotifyNodeLocked(h, wg, id) ==
    IF id \notin repoNodes
    THEN [hooks |-> h, wg |-> wg]
    ELSE [hooks |-> [h EXCEPT ![id] = @ + 1], wg |-> wg + 1]

\* BatchChanges lines 781-783: the loop over affectedNodeIDs, from the k-th
RECURSIVE NotifyFrom(_, _, _, _)
NotifyFrom(batch, k, h, wg) ==
    IF k > Len(batch)
    THEN [hooks |-> h, wg |-> wg]
    ELSE LET r == NotifyNodeLocked(h, wg, batch[k]) IN
         NotifyFrom(batch, k + 1, r.hooks, r.wg)

\* BatchChanges lines 777-785, under the read lock: it returns when the
\* hooks are started
BatchChanges(batch) ==
    LET r == NotifyFrom(batch, 1, hooks, updatingWG) IN
    /\ r.wg <= MaxHooks
    /\ hooks' = r.hooks
    /\ updatingWG' = r.wg
    /\ rres' = [op |-> "batch", node |-> 0, batch |-> batch,
                tried |-> FALSE, ok |-> FALSE]
    /\ UNCHANGED <<registeredFBs, repoNodes, watchedNodes, subscribed,
                   nonRegVars>>

\* notifyNodeLocked lines 767-773: a hook's rn.updated returns and the
\* deferred updatingWG.Done() runs
HookDone(n) ==
    /\ hooks[n] > 0
    /\ hooks' = [hooks EXCEPT ![n] = @ - 1]
    /\ updatingWG' = updatingWG - 1
    /\ UNCHANGED <<registeredFBs, repoNodes, watchedNodes, subscribed, rres,
                   nonRegVars>>

RegistryNext ==
    \/ \E n \in Nodes : RegisterRepoNode(n)
    \/ \E batch \in Batches : BatchChanges(batch)
    \/ \E n \in Nodes : HookDone(n)

RegistrySpec == Init /\ [][RegistryNext]_vars

\* ---------------------------------------------------------------------
\* Properties
\* ---------------------------------------------------------------------

\* worker w holds the in-progress claim of wreq[w]: between
\* markResetReqInProgress returning nil and clearFromInProgress
HoldsClaim(w) == wpc[w] \in {"doReset", "reset", "clear"}

SameId(r, q) == reqId[r] # 0 /\ reqId[r] = reqId[q]

\* C1: two workers never hold the in-progress claim for requests of the
\* same identity at the same time, and the claim an identity's map entry
\* records is the one a worker holds.
C1_OneClaimPerIdentity ==
    /\ \A w1, w2 \in Workers :
         (w1 # w2 /\ HoldsClaim(w1) /\ HoldsClaim(w2))
             => reqId[wreq[w1]] # reqId[wreq[w2]]
    /\ \A w \in Workers :
         HoldsClaim(w) => resetsInProgress[reqId[wreq[w]]] = wreq[w]

\* one worker runs a job while another, holding a request of the same
\* identity, waits for it
C1_Witness ==
    \E w1, w2 \in Workers :
        /\ wpc[w1] = "reset"
        /\ wpc[w2] = "wait"
        /\ wreq[w1] # wreq[w2]
        /\ SameId(wreq[w1], wreq[w2])

\* caller c's submission registered its own request in the queued map
RegisteredOwn(c) ==
    reqId[c] # 0 /\ (cpc[c] = "select" \/ cret[c] \in {c, CtxErr})

\* r is registered and no worker has claimed it yet
Unclaimed(r) == RegisteredOwn(r) /\ claims[r] = 0

\* caller c returns from the locked section of queueReset in this step
Submits(c) == cpc[c] = "idle" /\ cpc'[c] # "idle"

\* C3 as stated: all callers of one identity that are handed a signal are
\* handed the same one, and a single job is run for the identity.
C3_SameSignalForAll ==
    /\ \A c1, c2 \in Callers :
         (SameId(c1, c2) /\ cret[c1] \in Reqs /\ cret[c2] \in Reqs)
             => cret[c1] = cret[c2]
    /\ \A r, q \in Reqs :
         (SameId(r, q) /\ claims[r] >= 1 /\ claims[q] >= 1) => r = q

\* C3 amended: per identity at most one registered request is unclaimed, and
\* a caller that submits while such a request exists is handed that
\* request's signal and registers nothing, so the callers of a burst that is
\* submitted before a worker claims its first request share one signal and
\* one job.
C3_CoalesceUntilClaimed ==
    /\ [](\A r, q \in Reqs :
            (SameId(r, q) /\ Unclaimed(r) /\ Unclaimed(q)) => r = q)
    /\ [][\A c \in Callers : Submits(c) =>
            \A r \in Reqs :
                (Unclaimed(r) /\ reqId[r] = reqId'[c])
                    => (cret'[c] = r /\ cpc'[c] = "done"
                        /\ ~RegisteredOwn(c)')]_vars

\* a burst of three callers shares the signal of one request, which ran
\* once and has fired
C3_Witness ==
    \E r \in Reqs :
        /\ Cardinality({c \in Callers : cret[c] = r}) >= 3
        /\ claims[r] = 1
        /\ doneCh[r] = 1

\* C4: a queueReset call that finds its identity in the queued map returns
\* that request's signal and leaves the dispatch queue, both maps and the
\* pending counter as they were.
C4_QueuedSubmitNoNewState ==
    [][\A c \in Callers :
          (Submits(c) /\ resetsInQueue[reqId'[c]] # NoReq)
              => /\ cret'[c] = resetsInQueue[reqId'[c]]
                 /\ UNCHANGED <<resetQueue, resetsInQueue, resetsInProgress,
                                resetsWG>>]_vars

\* a caller was handed the signal of another caller's request
C4_Witness ==
    \E c \in Callers :
        cpc[c] = "done" /\ cret[c] \in Reqs /\ cret[c] # c

\* worker w claims the in-progress slot in this step
Claims(w) == wpc[w] = "mark" /\ wpc'[w] = "doReset"

\* C5 as stated: when a worker claims the slot for a request, every other
\* request of that identity that was claimed before has had its signal
\* closed.
C5_ClaimAfterSignal ==
    [][\A w \in Workers : Claims(w) =>
          \A r \in Reqs :
              (r # wreq[w] /\ SameId(r, wreq[w]) /\ claims[r] >= 1)
                  => doneCh[r] >= 1]_vars

\* C5 amended: when a worker claims the slot for a request, every other
\* request of that identity that was claimed before has returned from its
\* job and been cleared from the in-progress map (clearFromInProgress);
\* its signal is closed right after and may still be open.
C5_ClaimAfterClear ==
    [][\A w \in Workers : Claims(w) =>
          \A r \in Reqs :
              (r # wreq[w] /\ SameId(r, wreq[w]) /\ claims[r] >= 1)
                  => (retired[r] >= 1 /\ resetsInProgress[reqId[r]] # r)]_vars

\* the second request is claimed after the first was cleared and before the
\* first's signal is closed
C5_Witness ==
    \E w \in Workers, r \in Reqs :
        /\ HoldsClaim(w)
        /\ r # wreq[w]
        /\ SameId(r, wreq[w])
        /\ retired[r] = 1
        /\ doneCh[r] = 0

\* C6: a request is claimed at most once and held by at most one worker, its
\* signal is closed at most once, and a closed signal belongs to a request
\* that was claimed, is in neither map, and for which the pending counter
\* was decremented once.
C6_ClosedOnceAfterRetire ==
    \A r \in Reqs :
        /\ claims[r] <= 1
        /\ retired[r] <= 1
        /\ doneCh[r] <= 1
        /\ Cardinality({w \in Workers : wreq[w] = r}) <= 1
        /\ doneCh[r] >= 1 =>
              /\ claims[r] = 1
              /\ retired[r] = 1
              /\ resetsInQueue[reqId[r]] # r
              /\ resetsInProgress[reqId[r]] # r

\* a request whose caller was cancelled has run and fired
C6_Witness ==
    \E r \in Reqs :
        cret[r] = CtxErr /\ claims[r] = 1 /\ retired[r] = 1 /\ doneCh[r] = 1

\* r is in the dispatch queue
InQueue(r) == \E k \in 1..Len(resetQueue) : resetQueue[k] = r

\* r is waiting to be pushed, queued, held by a worker, or done
OnItsWay(r) ==
    \/ r \in asyncPush
    \/ InQueue(r)
    \/ \E w \in Workers : wreq[w] = r
    \/ doneCh[r] >= 1

\* C7: a request whose registering caller was cancelled before the push is
\* still delivered to the dispatch queue and its signal eventually fires;
\* the cancellation error goes only to a caller whose own request was
\* registered, never to one that was handed another request's signal.
C7_CancelKeepsPromise ==
    /\ [](\A c \in Callers : cret[c] = CtxErr => (RegisteredOwn(c) /\ OnItsWay(c)))
    /\ \A r \in Reqs : (r \in asyncPush) ~> InQueue(r)
    /\ \A r \in Reqs : (cret[r] = CtxErr) ~> (doneCh[r] = 1)

\* the registering caller was cancelled, another caller holds the request's
\* signal, and the signal has fired
C7_Witness ==
    \E r \in Reqs, c \in Callers :
        c # r /\ cret[r] = CtxErr /\ cret[c] = r /\ doneCh[r] = 1

\* r is the request registered in the queued map under its identity
Registered(r) == reqId[r] # 0 /\ resetsInQueue[reqId[r]] = r

\* C8: every request registered in the queued map eventually has its
\* identity freed from the in-progress map and its signal fired, whatever
\* the outcome of its job.
C8_EventualCompletion ==
    \A r \in Reqs :
        Registered(r) ~> (doneCh[r] = 1 /\ resetsInProgress[reqId[r]] # r)

\* the only request that ran had a job that failed (its error is in the
\* lasterr marker); its identity is free and its signal has fired
C8_Witness ==
    \E r \in Reqs :
        /\ doneCh[r] = 1
        /\ resetsInProgress[reqId[r]] = NoReq
        /\ store[reqId[r]].lasterr \in ErrTexts
        /\ \A q \in Reqs : q # r => claims[q] = 0

FindsExpired(p) ==
    /\ lpc[p] = "cwLocked"
    /\ lpc'[p] # "cwLocked"
    /\ lres'[p].found # "none"
    /\ store[LeaseId].working # NoFile
    /\ store[LeaseId].working + workTimeLimit <= CommonTime(p)

\* C9 as stated: an attempt that finds an expired working marker returns
\* granted and leaves the marker's time at the acquirer's common time.
C9_StaleReclaimAlways ==
    [][\A p \in Procs : FindsExpired(p) =>
          /\ lres'[p].canWork
          /\ store'[LeaseId].working = CommonTime(p)]_vars

\* C9 amended: such an attempt returns granted and leaves the marker's time
\* at the acquirer's common time, unless Chtimes fails: then it returns not
\* granted with that error and the marker keeps its old time.
C9_StaleReclaimUnlessChtimesFails ==
    [][\A p \in Procs : FindsExpired(p) =>
          \/ /\ lres'[p].canWork
             /\ store'[LeaseId].working = CommonTime(p)
          \/ /\ ~lres'[p].canWork
             /\ lres'[p].err = "EIO"
             /\ store'[LeaseId].working = store[LeaseId].working]_vars

\* a process has just reclaimed an expired marker: granted, no error, and
\* the marker carries the current common time
C9_Witness ==
    \E p \in Procs :
        /\ lres[p].op = "canWork"
        /\ lres[p].found = "expired"
        /\ lres[p].canWork
        /\ lres[p].err = "nil"
        /\ store[LeaseId].working = CommonTime(p)

\* C10: workDoneOnRepo called when neither the working marker nor the
\* lasterr marker exists returns no error.
C10_ReleaseWithoutMarkers ==
    [][\A p \in Procs :
          (/\ lpc[p] = "wdLocked"
           /\ lpc'[p] # "wdLocked"
           /\ store[LeaseId].working = NoFile
           /\ store[LeaseId].lasterr = NoErrFile)
              => lres'[p].err = "nil"]_vars

\* worker w returns from doReset in this step
DoResetReturns(w) == wpc[w] \in {"doReset", "reset"} /\ wpc'[w] = "clear"

\* C11 as stated: after a doReset that returns an error the lasterr marker
\* holds that error's text, and after one that ran its job under the lease
\* and returns no error there is no lasterr marker.
C11_LastErrAfterEveryJob ==
    [][\A w \in Workers : DoResetReturns(w) =>
          LET id == reqId[wreq[w]] IN
          /\ werr'[w] # "nil" => store'[id].lasterr = werr'[w]
          /\ (wpc[w] = "reset" /\ werr'[w] = "nil")
                => store'[id].lasterr = NoErrFile]_vars

\* C11 amended: the marker holds the text of the job's error when the job
\* (Chroot, Reset) failed under a granted lease and the release returned no
\* error; it is absent after a job that succeeded and whose release
\* returned no error; a doReset that fails before the lease is granted
\* leaves the marker as it was.
C11_LastErrWhenReleased ==
    [][\A w \in Workers : DoResetReturns(w) =>
          LET id == reqId[wreq[w]] IN
          /\ (wjob'[w] \in ErrTexts /\ wrel'[w] = "nil")
                => store'[id].lasterr = wjob'[w]
          /\ (wjob'[w] = "nil" /\ wrel'[w] = "nil")
                => store'[id].lasterr = NoErrFile
          /\ wpc[w] = "doReset"
                => store'[id].lasterr = store[id].lasterr]_vars

\* a job has just failed under the lease and its text is in the marker,
\* after an earlier request of the same identity was retired
C11_Witness ==
    \E w \in Workers :
        /\ wpc[w] = "clear"
        /\ wjob[w] \in ErrTexts
        /\ wrel[w] = "nil"
        /\ store[reqId[wreq[w]]].lasterr = wjob[w]
        /\ \E q \in Reqs : q # wreq[w] /\ SameId(q, wreq[w]) /\ retired[q] = 1

\* process p holds a granted, unreleased lease that is within workTimeLimit
\* of its grant
LiveOwner(p) == lheld[p] /\ now < lgrant[p] + workTimeLimit

\* C15: at most one process holds a granted, unreleased lease that is still
\* within workTimeLimit of its grant.
C15_SingleLiveOwner ==
    \A p, q \in Procs : (LiveOwner(p) /\ LiveOwner(q)) => p = q

\* the working marker of id is live at this process's common time
LiveMarker(id) ==
    /\ store[id].working # NoFile
    /\ store[id].working + workTimeLimit > CommonTime(Me)

\* C12: a delete request processed while the working marker of its repo is
\* live is skipped: the subtree is untouched, the working marker and the
\* lock file are not removed, and deleteLoop goes on to close the request's
\* doneCh, which it does before anything else.
C12_DeleteSkipsLiveLease ==
    [][/\ (dpc = "doDelete" /\ dpc' # "doDelete" /\ LiveMarker(dreqId[dreq]))
            => LET id == dreqId[dreq] IN
               /\ dpc' = "close"
               /\ tree' = tree
               /\ store'[id].working = store[id].working
               /\ store[id].lock => store'[id].lock
       /\ (dpc = "close" /\ dpc' # "close")
            => ddoneCh' = [ddoneCh EXCEPT ![dreq] = ddoneCh[dreq] + 1]]_vars

\* a delete was skipped without an error while a reset worker holds the
\* lease of the same repo, and its signal has fired; the subtree is there
C12_Witness ==
    \E d \in DReqs, w \in Workers :
        /\ wpc[w] = "reset"
        /\ reqId[wreq[w]] = dreqId[d]
        /\ LiveMarker(dreqId[d])
        /\ claims[wreq[w]] = 1
        /\ ddoneCh[d] = 1
        /\ tree[dreqId[d]] = "full"
        /\ \A e \in DReqs : e # d => dcpc[e] = "idle"

\* C13: when Shutdown has returned, every reset worker and the delete loop
\* have exited, both queues are empty, and every sync request that was
\* registered and every delete request that was queued has had its doneCh
\* closed.
C13_ShutdownDrains ==
    spc = "returned" =>
        /\ \A w \in Workers : wpc[w] = "exited"
        /\ dpc = "exited"
        /\ resetQueue = <<>>
        /\ deleteQueue = <<>>
        /\ \A r \in Reqs : RegisteredOwn(r) => doneCh[r] = 1
        /\ \A d \in DReqs : dcret[d] = d => ddoneCh[d] = 1

\* Shutdown has returned after two sync requests and a delete request were
\* processed
C13_Witness ==
    /\ spc = "returned"
    /\ \E r, q \in Reqs : r # q /\ doneCh[r] = 1 /\ doneCh[q] = 1
    /\ \E d \in DReqs : ddoneCh[d] = 1

\* C18: a job that was granted the lease reports its execution error when
\* execution failed, and the error of the release (workDoneOnRepo, then for
\* a delete removeLock) when execution succeeded.
C18_TeardownErrorPrecedence ==
    [][/\ \A w \in Workers : (wpc[w] = "reset" /\ wpc'[w] = "clear") =>
             werr'[w] = IF wjob'[w] # "nil" THEN wjob'[w] ELSE wrel'[w]
       /\ (dpc = "delete" /\ dpc' = "close") =>
             derr' = IF djob' # "nil" THEN djob' ELSE drel']_vars

\* a sync job whose execution and release both failed reports the execution
\* error, and a delete whose execution succeeded and whose release failed
\* reports the release error
C18_Witness ==
    /\ \E w \in Workers :
         /\ wpc[w] = "clear"
         /\ wjob[w] \in ErrTexts
         /\ wrel[w] \notin {"nil", "none"}
         /\ werr[w] = wjob[w]
    /\ dpc = "close"
    /\ djob = "nil"
    /\ drel \notin {"nil", "none"}
    /\ derr = drel

\* delete request d is in the delete queue
InDeleteQueue(d) == \E k \in 1..Len(deleteQueue) : deleteQueue[k] = d

\* C20: every accepted Delete call has its own request and signal; a
\* request is in the queue, or is the one deleteLoop works on, or has had
\* its doneCh closed once, and never two of these; requests are taken in the
\* order they were queued, each after the one before it was closed.
C20_DeleteSequential ==
    /\ \A d \in DReqs : dcret[d] \in {NoReq, CtxErr, d}
    /\ \A d \in DReqs : ddoneCh[d] <= 1
    /\ \A d \in DReqs :
         IF dcret[d] = d
         THEN /\ InDeleteQueue(d) => (dreq # d /\ ddoneCh[d] = 0)
              /\ dreq = d => ddoneCh[d] = 0
              /\ InDeleteQueue(d) \/ dreq = d \/ ddoneCh[d] = 1
         ELSE ~InDeleteQueue(d) /\ dreq # d /\ ddoneCh[d] = 0
    /\ \A k, l \in 1..Len(deleteQueue) : k < l => deleteQueue[k] < deleteQueue[l]
    /\ \A d, e \in DReqs :
         (d < e /\ dcret[d] = d /\ (dreq = e \/ ddoneCh[e] = 1))
            => ddoneCh[d] = 1

\* two Delete calls for the same target were both queued while the first
\* was not yet done; the first is done and the second is being worked on
C20_Witness ==
    \E d, e \in DReqs :
        /\ d < e
        /\ dreqId[d] = dreqId[e]
        /\ dcret[d] = d /\ dcret[e] = e
        /\ ddoneCh[d] = 1
        /\ dreq = e
        /\ dpc = "delete"

\* a caller inside Clone holds the lock file of id
CloneHolds(id) == \E c \in cloneLocked : reqId[c] = id

\* C16: while one goroutine of the process is inside the lock-file critical
\* section of an identity, no other goroutine of the process enters it or
\* changes the lease files of that identity: at most one caller inside Clone
\* holds the lock file of an identity, and while one does, no reset worker,
\* delete loop or other Clone caller writes the identity's lease files.
C16_LeaseFileAccessSerialized ==
    /\ [](\A c, d \in cloneLocked : reqId[c] = reqId[d] => c = d)
    /\ [][\A id \in Ids : CloneHolds(id) => store'[id] = store[id]]_vars

\* process p returns from canWorkOnRepo in this step, having found (Stat
\* succeeded) that there is no working marker
FindsAbsent(p) ==
    /\ lpc[p] = "cwLocked"
    /\ lpc'[p] # "cwLocked"
    /\ lres'[p].found # "none"
    /\ store[LeaseId].working = NoFile

\* C17 as stated: an attempt that finds no working marker returns granted
\* and leaves a working marker whose time is the acquirer's common time.
C17_AbsentMarkerAlwaysGranted ==
    [][\A p \in Procs : FindsAbsent(p) =>
          /\ lres'[p].canWork
          /\ store'[LeaseId].working = CommonTime(p)]_vars

\* C17 amended: such an attempt is never denied as held by another worker
\* (not granted without an error); it returns granted and leaves a marker
\* whose time is the acquirer's common time, unless creating, closing or
\* stamping the new marker fails: then it returns not granted with that
\* error, and there is no marker or one that carries the creator's local
\* time.
C17_AbsentMarkerGrantedUnlessStoreFails ==
    [][\A p \in Procs : FindsAbsent(p) =>
          \/ /\ lres'[p].canWork
             /\ store'[LeaseId].working = CommonTime(p)
          \/ /\ ~lres'[p].canWork
             /\ lres'[p].err = "EIO"
             /\ store'[LeaseId].working \in {NoFile, LocalNow(p)}]_vars

\* a process whose clock is ahead has just been granted the lease on
\* finding no working marker; the lock file was there before the attempt
\* (the lasterr marker of an earlier release is there), and the new marker
\* carries the common time
C17_Witness ==
    \E p \in Procs :
        /\ lres[p].op = "canWork"
        /\ lres[p].found = "absent"
        /\ lres[p].canWork
        /\ lres[p].err = "nil"
        /\ skew[p] # 0
        /\ store[LeaseId].lock
        /\ store[LeaseId].lasterr \in ErrTexts
        /\ store[LeaseId].working = CommonTime(p)

\* node n was watched
Watched(n) == \E k \in 1..Len(watchedNodes) : watchedNodes[k] = n

\* some node of scope fb was watched
ScopeWatched(fb) == \E n \in Nodes : ScopeOf(n) = fb /\ Watched(n)

\* C14 as stated: once a node of a scope was watched, the manager has
\* subscribed to the scope's change feed exactly once.
C14_SubscribedOnFirstWatch ==
    \A fb \in Scopes : ScopeWatched(fb) => subscribed[fb] = 1

\* C14 amended: the manager subscribes to a scope at most once; a watch
\* calls RegisterForChanges exactly when no earlier call for the scope has
\* succeeded, so the first watch always does, and after a call that
\* succeeded no watch of the scope subscribes again; every watch enters its
\* node in the registry.
C14_SubscribeOncePerScope ==
    /\ [](\A fb \in Scopes :
            /\ subscribed[fb] = IF fb \in registeredFBs THEN 1 ELSE 0
            /\ fb \in registeredFBs => ScopeWatched(fb))
    /\ [](\A n \in Nodes : Watched(n) <=> n \in repoNodes)
    /\ [][Len(watchedNodes') > Len(watchedNodes) =>
            LET n == rres'.node
                fb == ScopeOf(n) IN
            /\ rres'.op = "register"
            /\ watchedNodes' = Append(watchedNodes, n)
            /\ repoNodes' = repoNodes \cup {n}
            /\ rres'.tried <=> fb \notin registeredFBs
            /\ ~ScopeWatched(fb) => rres'.tried
            /\ subscribed'[fb] =
                 subscribed[fb] + (IF rres'.tried /\ rres'.ok THEN 1 ELSE 0)]_vars

\* two different nodes of one scope were watched, the second after the
\* scope was registered: one subscription, and the last watch made none
C14_Witness ==
    \E n, m \in Nodes :
        /\ n # m
        /\ ScopeOf(n) = ScopeOf(m)
        /\ watchedNodes = <<n, m>>
        /\ repoNodes = {n, m}
        /\ subscribed[ScopeOf(n)] = 1
        /\ rres.op = "register" /\ rres.node = m /\ ~rres.tried

\* the number of hooks started and not yet finished for the nodes from n up
RECURSIVE RunningFrom(_)
RunningFrom(n) == IF n > NumNodes THEN 0 ELSE hooks[n] + RunningFrom(n + 1)

\* the step is a delivery of a batch to BatchChanges
BatchDelivered ==
    /\ rres'.op = "batch"
    /\ rres' # rres \/ updatingWG' > updatingWG

MapSize(m) == Cardinality({i \in Ids : m[i] # NoReq})

\* worker w runs clearFromInProgress in this step
Retires(w) == wpc[w] = "clear" /\ wpc'[w] = "close"

\* C21: the pending counter resetsWG is never negative and equals the
\* number of entries of the queued map plus the number of entries of the
\* in-progress map; it goes up by one exactly when a submission registers
\* its request and down by one exactly when a worker retires a request, and
\* a request is retired at most once and only when it was registered.
C21_PendingCounter ==
    /\ [](/\ resetsWG >= 0
          /\ resetsWG = MapSize(resetsInQueue) + MapSize(resetsInProgress))
    /\ [](\A r \in Reqs :
            /\ retired[r] <= 1
            /\ retired[r] = 1 => (RegisteredOwn(r) /\ claims[r] = 1))
    /\ [][/\ resetsWG' \in {resetsWG - 1, resetsWG, resetsWG + 1}
          /\ resetsWG' = resetsWG + 1 <=>
                \E c \in Callers : Submits(c) /\ RegisteredOwn(c)'
          /\ resetsWG' = resetsWG - 1 <=>
                \E w \in Workers : Retires(w)]_vars

\* one request was retired, a second one of the same identity is being
\* worked on and a third is in the queued map: the counter is two
C21_Witness ==
    \E r, q, t \in Reqs :
        /\ retired[r] = 1
        /\ SameId(r, q) /\ SameId(q, t)
        /\ resetsInProgress[reqId[q]] = q
        /\ resetsInQueue[reqId[t]] = t
        /\ resetsWG = 2

\* r was claimed by a worker and is not yet retired
ClaimedNow(r) == claims[r] >= 1 /\ retired[r] = 0

\* C22: the requests that are registered and not yet claimed are exactly the
\* entries of the queued map, and those claimed and not yet retired exactly
\* the entries of the in-progress map, so each identity has at most one of
\* either; a worker that has dequeued a request and not yet claimed it holds
\* the queued-map entry of its identity, at most one worker waits per
\* identity, and a claim removes the claimant's own request from the queued
\* map.
C22_TwoOutstandingPerIdentity ==
    /\ [](\A r \in Reqs :
            /\ Unclaimed(r) <=> Registered(r)
            /\ ClaimedNow(r) <=>
                 (reqId[r] # 0 /\ resetsInProgress[reqId[r]] = r))
    /\ [](\A w \in Workers :
            wpc[w] \in {"mark", "wait"} => Registered(wreq[w]))
    /\ [](\A id \in Ids :
            Cardinality({w \in Workers :
                wpc[w] = "wait" /\ reqId[wreq[w]] = id}) <= 1)
    /\ [][\A w \in Workers : Claims(w) =>
            LET id == reqId[wreq[w]] IN
            /\ resetsInQueue[id] = wreq[w]
            /\ resetsInQueue'[id] = NoReq]_vars

\* a worker waits with the queued-map entry of an identity whose claimed
\* request another worker is running, and a later caller was handed the
\* waiting request's signal
C22_Witness ==
    \E w1, w2 \in Workers, c \in Callers :
        /\ wpc[w1] = "reset"
        /\ wpc[w2] = "wait"
        /\ SameId(wreq[w1], wreq[w2])
        /\ resetsInProgress[reqId[wreq[w1]]] = wreq[w1]
        /\ resetsInQueue[reqId[wreq[w2]]] = wreq[w2]
        /\ c # wreq[w2]
        /\ cret[c] = wreq[w2]

\* the request that serves caller c's submission, after the step in which c
\* submits: the one whose signal c is handed, or c's own
ServedBy(c) == IF cret'[c] # NoReq THEN cret'[c] ELSE c

\* C23: a claim takes the request out of the queued map and enters it in
\* the in-progress map in one step, when no request of the identity is in
\* progress; a signal handed out by queueReset is that of a request no
\* worker has claimed; and a submission made while a request of the same
\* identity is in progress is not handed that request's signal: it is
\* served by a request that is unclaimed and is the queued-map entry, which
\* is claimed only after the one in progress was cleared.
C23_NoCoalescingOntoStartedJob ==
    [][/\ \A w \in Workers : Claims(w) =>
            LET id == reqId[wreq[w]] IN
            /\ resetsInProgress[id] = NoReq
            /\ resetsInQueue'[id] = NoReq
            /\ resetsInProgress'[id] = wreq[w]
       /\ \A c \in Callers : (Submits(c) /\ cret'[c] # NoReq) =>
            /\ claims[cret'[c]] = 0
            /\ \A w \in Workers : HoldsClaim(w) => wreq[w] # cret'[c]
       /\ \A c \in Callers :
            (Submits(c) /\ resetsInProgress[reqId'[c]] # NoReq) =>
               /\ cret'[c] # resetsInProgress[reqId'[c]]
               /\ ServedBy(c) # resetsInProgress[reqId'[c]]
               /\ claims'[ServedBy(c)] = 0
               /\ resetsInQueue'[reqId'[c]] = ServedBy(c)]_vars

\* while a worker runs the job of one request, a caller of the same identity
\* has registered a new request, still unclaimed, and a later caller was
\* handed the new request's signal
C23_Witness ==
    \E w \in Workers, c, d \in Callers :
        /\ wpc[w] = "reset"
        /\ c # wreq[w] /\ d # c /\ d # wreq[w]
        /\ SameId(c, wreq[w])
        /\ RegisteredOwn(c)
        /\ claims[c] = 0
        /\ cret[d] = c
        /\ doneCh[wreq[w]] = 0

====
